---- MODULE Spec2Model ----
(***************************************************************************)
(* Model of mzparam/optimization/optimization.py: the Optimizer adapter    *)
(* shell (opt_tnc, opt_lbfgsb, opt_simplex, opt_SCG, Opt_Adadelta) and the *)
(* get_optimizer registry lookup.                                          *)
(*                                                                         *)
(* Conventions.                                                            *)
(*  - Python None is the empty sequence <<>>, a present value v is <<v>>.  *)
(*  - A Python str that the code inspects character by character (registry *)
(*    keys, the f_min query) is a sequence of one-character strings.       *)
(*  - A parameter vector is one natural number in 0..MaxX; arrays live in  *)
(*    heap, addressed by small integers, so that aliasing is visible.      *)
(***************************************************************************)
EXTENDS Integers, Sequences, FiniteSets, TLC

VARIABLES
    self,       \* the Optimizer instance: a record of its attributes
    heap,       \* heap[a]: contents of the parameter array at address a
    kwargs,     \* which of f_fp, f, fp the caller passes to run(**kwargs)
    pc,         \* "idle" | "adadelta_loop" | "returned" | "raised"
    err,        \* exception that ended the last run(), "" when none
    call,       \* what the current run handed to its external backend
    opt,        \* the climin Adadelta iterator object driven by Opt_Adadelta.opt
    hist,       \* number of runs finished, and the first run's results
    ctor,       \* the arguments the instance was constructed with
    backend,    \* how the external routine behaves on the caller's problem
    order,      \* iteration order of optimizers.keys() inside get_optimizer
    f_min,      \* argument of the last get_optimizer call
    found       \* its outcome: the class returned, or "KeyError"

vars == <<self, heap, kwargs, pc, err, call, opt, hist, ctor, backend, order, f_min, found>>

adapterVars == <<self, heap, kwargs, pc, err, call, opt, hist, ctor, backend>>
lookupVars == <<order, f_min, found>>

None == <<>>
Some(v) == <<v>>

Min(a, b) == IF a <= b THEN a ELSE b

(***************************************************************************)
(* Bounds of the model.                                                    *)
(***************************************************************************)
MaxX == 2          \* parameter values are 0..MaxX
MaxBudget == 3     \* max_iters / max_f_eval arguments range over 1..MaxBudget
MaxRuns == 2       \* run() is called at most MaxRuns times per instance
CodeMargin == 1    \* backend codes reach CodeMargin past either end of a table
MaxQueryLen == 2   \* length of the free-form get_optimizer queries

(***************************************************************************)
(* Registry: get_optimizer                                                 *)
(***************************************************************************)
\* str.lower() on one character, for the characters the model uses
lowers == <<"a","b","c","d","e","f","g","i","l","m","n","p","s","t","x","z">>
uppers == <<"A","B","C","D","E","F","G","I","L","M","N","P","S","T","X","Z">>

LowerChar(c) ==
    IF \E i \in 1..Len(uppers) : uppers[i] = c
    THEN lowers[CHOOSE i \in 1..Len(uppers) : uppers[i] = c]
    ELSE c

UpperChar(c) ==
    IF \E i \in 1..Len(lowers) : lowers[i] = c
    THEN uppers[CHOOSE i \in 1..Len(lowers) : lowers[i] = c]
    ELSE c

\* identity instead of lower-casing
LowerNoFold(s) == s

\* str.lower()
Lower(s) == [i \in 1..Len(s) |-> LowerChar(s[i])]

\* first-character-only comparison instead of a substring search
FindPrefixOnly(s, sub) ==
    IF Len(sub) <= Len(s) /\ SubSeq(s, 1, Len(sub)) = sub THEN 0 ELSE -1

\* str.find(sub): lowest 0-based index at which sub occurs in s, else -1
Find(s, sub) ==
    LET hits == {i \in 0..(Len(s) - Len(sub)) : SubSeq(s, i + 1, i + Len(sub)) = sub}
    IN  IF hits = {} THEN -1 ELSE CHOOSE i \in hits : \A j \in hits : i <= j

\* the optimizers dict, in insertion order
optimizers ==
    << [key |-> <<"f","m","i","n","_","t","n","c">>, cls |-> "opt_tnc"],
       [key |-> <<"s","i","m","p","l","e","x">>,     cls |-> "opt_simplex"],
       [key |-> <<"l","b","f","g","s","b">>,         cls |-> "opt_lbfgsb"],
       [key |-> <<"s","c","g">>,                     cls |-> "opt_SCG"],
       [key |-> <<"a","d","a","d","e","l","t","a">>, cls |-> "Opt_Adadelta"] >>

\* the possible iteration orders of optimizers.keys()
Orders ==
    {o \in [1..Len(optimizers) -> 1..Len(optimizers)] :
        \A i, j \in 1..Len(optimizers) : i # j => o[i] # o[j]}

\* the loop of get_optimizer over the keys from position i on
RECURSIVE Scan(_, _, _)
Scan(ord, q, i) ==
    IF i > Len(optimizers) THEN "KeyError"
    ELSE LET e == optimizers[ord[i]]
         IN  IF Find(Lower(e.key), Lower(q)) # -1 THEN e.cls
             ELSE Scan(ord, q, i + 1)

get_optimizer(ord, q) == Scan(ord, q, 1)

\* every upper/lower-case spelling of s
RECURSIVE Spellings(_)
Spellings(s) ==
    IF s = <<>> THEN {<<>>}
    ELSE {<<c>> \o r : c \in {s[1], UpperChar(s[1])}, r \in Spellings(Tail(s))}

QueryChars == {"s", "S", "c", "g", "b", "_", "z"}

RECURSIVE Words(_)
Words(n) ==
    IF n = 0 THEN {<<>>}
    ELSE Words(n - 1) \cup {Append(w, c) : w \in {v \in Words(n - 1) : Len(v) = n - 1},
                                            c \in QueryChars}

Queries ==
    UNION {Spellings(optimizers[i].key) : i \in 1..Len(optimizers)}
        \cup Words(MaxQueryLen)

GetOptimizer(q) ==
    /\ f_min' = q
    /\ found' = get_optimizer(order, q)
    /\ UNCHANGED <<order, adapterVars>>

(***************************************************************************)
(* Caller-supplied callbacks: a deterministic, side-effect-free objective  *)
(* with its gradient, and the combined form.                               *)
(***************************************************************************)
X == 0..MaxX

f(x) == x * x
fp(x) == 2 * x
f_fp(x) == <<f(x), fp(x)>>

\* a descent of k unit steps from x towards the minimiser of f
Descend(x, k) == x - Min(x, k)

(***************************************************************************)
(* Optimizer.__init__                                                      *)
(***************************************************************************)
DefaultMaxFEval == 10000

Kinds == {"Optimizer", "opt_tnc", "opt_lbfgsb", "opt_simplex", "opt_SCG", "Opt_Adadelta"}

OptName(kind) ==
    CASE kind = "opt_tnc" -> Some("TNC (Scipy implementation)")
      [] kind = "opt_lbfgsb" -> Some("L-BFGS-B (Scipy implementation)")
      [] kind = "opt_simplex" -> Some("Nelder-Mead simplex routine (via Scipy)")
      [] kind = "opt_SCG" -> Some("Scaled Conjugate Gradients")
      [] kind = "Opt_Adadelta" -> Some("Adadelta (climin)")
      [] OTHER -> None

\* the instance after construction; x_init is the address of the caller's array
Optimizer__init__(kind, x_init, max_f_eval, max_iters, ftol, gtol, xtol, bfgs_factor) ==
    [ kind |-> kind,
      opt_name |-> OptName(kind),
      x_init |-> x_init,
      messages |-> FALSE,
      f_opt |-> None,
      x_opt |-> None,
      funct_eval |-> None,
      status |-> None,
      max_f_eval |-> max_iters,
      max_iters |-> max_iters,
      bfgs_factor |-> bfgs_factor,
      trace |-> None,
      time |-> "Not available",
      xtol |-> xtol,
      gtol |-> gtol,
      ftol |-> ftol,
      model |-> None ]

\* nothing handed to a backend yet, nothing received from it
NoCall ==
    [ backend_calls |-> 0, maxfun |-> None, opt_dict |-> {}, warnings |-> {},
      code |-> None, evals |-> None, consumed |-> 0 ]

NoIterator == [wrt |-> None, n_iter |-> 0]

(***************************************************************************)
(* The status tables of the table-driven adapters.                         *)
(***************************************************************************)
tnc_rcstrings ==
    << "Local minimum", "Converged", "XConverged",
       "Maximum number of f evaluations reached",
       "Line search failed", "Function is constant" >>

rcstrings == <<"Converged", "Maximum number of f evaluations reached", "Error">>

statuses ==
    << "Converged", "Maximum number of function evaluations made",
       "Maximum number of iterations reached" >>

\* the codes an external backend may hand back for a table
Codes(table) == (0 - Len(table) - CodeMargin)..(Len(table) - 1 + CodeMargin)

\* the external routines are deterministic: on the caller's problem a routine
\* needs demand evaluations (it stops at its budget) and reports code
Backends(kind) ==
    CASE kind = "opt_tnc" ->
            [demand : 1..MaxBudget, code : Codes(tnc_rcstrings)]
      [] kind = "opt_lbfgsb" ->
            [demand : 1..MaxBudget, code : Codes(rcstrings)]
      [] kind = "opt_simplex" ->
            [demand : 1..MaxBudget, code : Codes(statuses)]
      [] OTHER -> [demand : {1}, code : {0}]

\* the keyword arguments a caller passes to run(): the combined callback, the
\* separate pair, one of the pair, everything, or nothing
Callbacks ==
    {kw \in [f_fp : BOOLEAN, f : BOOLEAN, fp : BOOLEAN] : kw.f_fp => (kw.f <=> kw.fp)}

InitAdapter(kinds) ==
    \E kind \in kinds, x0 \in X, mi \in 1..MaxBudget,
       mfe \in {None, Some(1)},
       xtol \in {None, Some(1)}, ftol \in {None, Some(2)}, gtol \in {None, Some(3)},
       bf \in {None, Some(10)}, kw \in Callbacks :
        /\ (kind # "opt_lbfgsb" => bf = None)
        /\ (kind \in {"Optimizer", "Opt_Adadelta"} => xtol = None /\ ftol = None /\ gtol = None)
        /\ heap = <<x0>>
        /\ self = Optimizer__init__(kind, 1, IF mfe = None THEN DefaultMaxFEval ELSE mfe[1],
                                    mi, ftol, gtol, xtol, bf)
        /\ ctor = [ max_f_eval |-> IF mfe = None THEN DefaultMaxFEval ELSE mfe[1],
                    max_iters |-> mi,
                    x_init |-> x0,
                    future_warning |-> (kind = "opt_SCG" /\ mfe # None) ]
        /\ kwargs = kw
        /\ backend \in Backends(kind)
        /\ pc = "idle"
        /\ err = ""
        /\ call = NoCall
        /\ opt = NoIterator
        /\ hist = [runs |-> 0, first |-> None]

InitLookup(ords) ==
    /\ order \in ords
    /\ f_min = <<>>
    /\ found = "none"

(***************************************************************************)
(* Optimizer.run: start the clock, call opt, stop the clock.               *)
(***************************************************************************)
CanRun(kind) ==
    /\ self.kind = kind
    /\ pc \in {"idle", "returned", "raised"}
    /\ hist.runs < MaxRuns

\* opt() returned: run() records the elapsed time and returns
Returned(s, h) ==
    /\ self' = [s EXCEPT !.time = "elapsed"]
    /\ heap' = h
    /\ pc' = "returned"
    /\ err' = ""
    /\ hist' = [ runs |-> hist.runs + 1,
                 first |-> IF hist.runs = 0
                           THEN Some([ x_opt |-> IF s.x_opt = None THEN None
                                                 ELSE Some(h[s.x_opt[1]]),
                                       f_opt |-> s.f_opt ])
                           ELSE hist.first ]

\* opt() raised e: the exception leaves run() before the time is recorded
Raised(s, h, e) ==
    /\ self' = s
    /\ heap' = h
    /\ pc' = "raised"
    /\ err' = e
    /\ hist' = [hist EXCEPT !.runs = hist.runs + 1]

\* Optimizer.opt
RunBase ==
    /\ CanRun("Optimizer")
    /\ call' = NoCall
    /\ Raised(self, heap, "NotImplementedError")
    /\ UNCHANGED <<kwargs, opt, ctor, backend, lookupVars>>

(***************************************************************************)
(* Python list indexing, as used on the status tables.                     *)
(***************************************************************************)
PyIndexable(table, i) == -Len(table) <= i /\ i < Len(table)

PyIndex(table, i) == IF i >= 0 THEN table[i + 1] ELSE table[Len(table) + i + 1]


\* the array the backend returns is a fresh one, at address 2
Fresh(x) == <<heap[1], x>>

(***************************************************************************)
(* opt_tnc.opt                                                             *)
(***************************************************************************)

\* assert f_fp != None
TncRequires(kw) == kw.f_fp

TncOptDict(s) ==
    (IF s.xtol # None THEN {<<"xtol", s.xtol[1]>>} ELSE {})
        \cup (IF s.ftol # None THEN {<<"ftol", s.ftol[1]>>} ELSE {})
        \cup (IF s.gtol # None THEN {<<"pgtol", s.gtol[1]>>} ELSE {})

\* optimize.fmin_tnc(f_fp, x0, maxfun=maxfun, **opt_dict) -> (x, nfeval, rc)
fmin_tnc(x0, maxfun) ==
    [x |-> Descend(x0, maxfun), nfeval |-> Min(backend.demand, maxfun), rc |-> backend.code]

OptTnc ==
    /\ CanRun("opt_tnc")
    /\ IF ~TncRequires(kwargs)
       THEN /\ call' = NoCall
            /\ Raised(self, heap, "AssertionError")
       ELSE LET opt_result == fmin_tnc(heap[self.x_init], self.max_f_eval)
                h == Fresh(opt_result.x)
                s1 == [self EXCEPT !.x_opt = Some(2),
                                   !.f_opt = Some(f_fp(h[2])[1]),
                                   !.funct_eval = Some(opt_result.nfeval)]
            IN  /\ call' = [NoCall EXCEPT !.backend_calls = 1,
                                          !.maxfun = Some(self.max_f_eval),
                                          !.opt_dict = TncOptDict(self),
                                          !.code = Some(opt_result.rc),
                                          !.evals = Some(opt_result.nfeval)]
                /\ IF PyIndexable(tnc_rcstrings, opt_result.rc)
                   THEN Returned([s1 EXCEPT !.status = Some(PyIndex(tnc_rcstrings, opt_result.rc))], h)
                   ELSE Raised(s1, h, "IndexError")
    /\ UNCHANGED <<kwargs, opt, ctor, backend, lookupVars>>


(***************************************************************************)
(* opt_lbfgsb.opt                                                          *)
(***************************************************************************)

\* assert f_fp != None
LbfgsbRequires(kw) == kw.f_fp

\* xtol handed on to a backend that has no such argument
LbfgsbOptDictWithXtol(s) ==
    (IF s.xtol # None THEN {<<"xtol", s.xtol[1]>>} ELSE {})
        \cup (IF s.gtol # None THEN {<<"pgtol", s.gtol[1]>>} ELSE {})
        \cup (IF s.bfgs_factor # None THEN {<<"factr", s.bfgs_factor[1]>>} ELSE {})

LbfgsbOptDict(s) ==
    (IF s.gtol # None THEN {<<"pgtol", s.gtol[1]>>} ELSE {})
        \cup (IF s.bfgs_factor # None THEN {<<"factr", s.bfgs_factor[1]>>} ELSE {})

LbfgsbWarnings(s) ==
    (IF s.xtol # None THEN {"xtol"} ELSE {})
        \cup (IF s.ftol # None THEN {"ftol"} ELSE {})

\* optimize.fmin_l_bfgs_b(f_fp, x0, maxfun=maxfun, **opt_dict) -> (x, f, d)
fmin_l_bfgs_b(x0, maxfun) ==
    [ x |-> Descend(x0, maxfun),
      d |-> [funcalls |-> Min(backend.demand, maxfun), warnflag |-> backend.code,
             task |-> "ABNORMAL_TERMINATION_IN_LNSRCH"] ]

OptLbfgsb ==
    /\ CanRun("opt_lbfgsb")
    /\ IF ~LbfgsbRequires(kwargs)
       THEN /\ call' = NoCall
            /\ Raised(self, heap, "AssertionError")
       ELSE LET opt_result == fmin_l_bfgs_b(heap[self.x_init], self.max_iters)
                h == Fresh(opt_result.x)
                s1 == [self EXCEPT !.x_opt = Some(2),
                                   !.f_opt = Some(f_fp(h[2])[1]),
                                   !.funct_eval = Some(opt_result.d.funcalls)]
            IN  /\ call' = [NoCall EXCEPT !.backend_calls = 1,
                                          !.maxfun = Some(self.max_iters),
                                          !.opt_dict = LbfgsbOptDict(self),
                                          !.warnings = LbfgsbWarnings(self),
                                          !.code = Some(opt_result.d.warnflag),
                                          !.evals = Some(opt_result.d.funcalls)]
                /\ IF PyIndexable(rcstrings, opt_result.d.warnflag)
                   THEN Returned([s1 EXCEPT !.status =
                                      IF opt_result.d.warnflag = 2
                                      THEN Some("Error" \o opt_result.d.task)
                                      ELSE Some(PyIndex(rcstrings, opt_result.d.warnflag))], h)
                   ELSE Raised(s1, h, "IndexError")
    /\ UNCHANGED <<kwargs, opt, ctor, backend, lookupVars>>


(***************************************************************************)
(* opt_simplex.opt                                                         *)
(***************************************************************************)

SimplexOptDict(s) ==
    (IF s.xtol # None THEN {<<"xtol", s.xtol[1]>>} ELSE {})
        \cup (IF s.ftol # None THEN {<<"ftol", s.ftol[1]>>} ELSE {})

SimplexWarnings(s) ==
    (IF s.gtol # None THEN {"gtol"} ELSE {})

\* optimize.fmin(f, x0, (), maxfun=maxfun, full_output=True, **opt_dict)
\*   -> (xopt, fopt, iter, funcalls, warnflag)
fmin(x0, maxfun) ==
    [ xopt |-> Descend(x0, maxfun), fopt |-> f(Descend(x0, maxfun)),
      funcalls |-> Min(backend.demand, maxfun), warnflag |-> backend.code ]

OptSimplex ==
    /\ CanRun("opt_simplex")
    /\ call' = [NoCall EXCEPT !.backend_calls = 1,
                              !.maxfun = Some(self.max_f_eval),
                              !.opt_dict = SimplexOptDict(self),
                              !.warnings = SimplexWarnings(self),
                              !.code = IF kwargs.f THEN Some(backend.code) ELSE None,
                              !.evals = IF kwargs.f
                                        THEN Some(Min(backend.demand, self.max_f_eval))
                                        ELSE None]
    /\ IF ~kwargs.f
       THEN \* fmin calls f, which is None
            Raised(self, heap, "TypeError")
       ELSE LET opt_result == fmin(heap[self.x_init], self.max_f_eval)
                h == Fresh(opt_result.xopt)
                s1 == [self EXCEPT !.x_opt = Some(2),
                                   !.f_opt = Some(opt_result.fopt),
                                   !.funct_eval = Some(opt_result.funcalls)]
            IN  IF PyIndexable(statuses, opt_result.warnflag)
                THEN Returned([s1 EXCEPT !.status = Some(PyIndex(statuses, opt_result.warnflag)),
                                         !.trace = None], h)
                ELSE Raised(s1, h, "IndexError")
    /\ UNCHANGED <<kwargs, opt, ctor, backend, lookupVars>>


(***************************************************************************)
(* The SCG routine of scg.py: scaled conjugate gradients on f, fp.         *)
(* Evaluations of f and of fp are both counted.                            *)
(***************************************************************************)
RECURSIVE ScgLoop(_, _, _, _, _)
ScgLoop(x, trace, n, it, cfg) ==
    IF it >= cfg.maxiters
    THEN [x |-> x, trace |-> trace, funct_eval |-> n, status |-> "MaxIterationsReached"]
    ELSE IF fp(x) = 0
    THEN [x |-> x, trace |-> trace, funct_eval |-> n, status |-> "Converged"]
    ELSE LET xn == Descend(x, 1)
             n1 == n + 3
             tr == Append(trace, f(xn))
         IN  IF \/ cfg.xtol # None /\ x - xn < cfg.xtol[1]
                \/ cfg.ftol # None /\ f(x) - f(xn) < cfg.ftol[1]
                \/ cfg.gtol # None /\ fp(xn) < cfg.gtol[1]
             THEN [x |-> xn, trace |-> tr, funct_eval |-> n1, status |-> "Converged"]
             ELSE IF n1 > cfg.max_f_eval
             THEN [x |-> xn, trace |-> tr, funct_eval |-> n1,
                   status |-> "MaxFunctionEvaluationsReached"]
             ELSE ScgLoop(xn, tr, n1, it + 1, cfg)

SCG(x0, cfg) == ScgLoop(x0, <<f(x0)>>, 2, 0, cfg)

(***************************************************************************)
(* opt_SCG.opt                                                             *)
(***************************************************************************)
\* only f is checked
ScgRequiresFOnly(kw) == kw.f

\* assert not f is None; assert not fp is None
ScgRequires(kw) == kw.f /\ kw.fp

OptScg ==
    /\ CanRun("opt_SCG")
    /\ IF ~ScgRequires(kwargs)
       THEN /\ call' = NoCall
            /\ Raised(self, heap, "AssertionError")
       ELSE LET opt_result == SCG(heap[self.x_init],
                                  [ maxiters |-> self.max_iters,
                                    max_f_eval |-> self.max_f_eval,
                                    xtol |-> self.xtol, ftol |-> self.ftol,
                                    gtol |-> self.gtol ])
                h == Fresh(opt_result.x)
            IN  /\ call' = [NoCall EXCEPT !.backend_calls = 1,
                                          !.maxfun = Some(self.max_f_eval),
                                          !.opt_dict = { <<"xtol", self.xtol>>,
                                                         <<"ftol", self.ftol>>,
                                                         <<"gtol", self.gtol>> },
                                          !.evals = Some(opt_result.funct_eval)]
                /\ Returned([self EXCEPT
                                !.x_opt = Some(2),
                                !.trace = Some(opt_result.trace),
                                !.f_opt = Some(opt_result.trace[Len(opt_result.trace)]),
                                !.funct_eval = Some(opt_result.funct_eval),
                                !.status = Some(opt_result.status)], h)
    /\ UNCHANGED <<kwargs, opt, ctor, backend, lookupVars>>

(***************************************************************************)
(* Opt_Adadelta.opt, driving the climin Adadelta iterator.  The iterator   *)
(* keeps the array it is given as opt.wrt and updates it in place; each    *)
(* state it yields carries n_iter, counted from 1.                         *)
(***************************************************************************)
\* assert not fp is None
AdadeltaRequires(kw) == kw.fp

\* one Adadelta update of the parameters: a step against the gradient
AdadeltaStep(x) == IF fp(x) > 0 THEN x - 1 ELSE x

\* climin.adadelta.Adadelta(self.x_init, fp, ...)
Adadelta(wrt) == [wrt |-> Some(wrt), n_iter |-> 0]

\* if info['n_iter'] > self.max_iters
PastCutoffStrict(info, s) == info.n_iter > s.max_iters

\* if info['n_iter'] >= self.max_iters
PastCutoff(info, s) == info.n_iter >= s.max_iters

\* the break branch without the status assignment
AtCutoffNoStatus(s, o) == [s EXCEPT !.x_opt = o.wrt]

\* the break branch: self.x_opt = opt.wrt; self.status = ...
AtCutoff(s, o) ==
    [s EXCEPT !.x_opt = o.wrt,
              !.status = Some("maximum number of function evaluations exceeded ")]

\* entry of opt: the assertion and the construction of the iterator
RunAdadelta ==
    /\ CanRun("Opt_Adadelta")
    /\ IF ~AdadeltaRequires(kwargs)
       THEN /\ call' = NoCall
            /\ opt' = opt
            /\ Raised(self, heap, "AssertionError")
       ELSE /\ call' = [NoCall EXCEPT !.backend_calls = 1]
            /\ opt' = Adadelta(self.x_init)
            /\ pc' = "adadelta_loop"
            /\ err' = ""
            /\ UNCHANGED <<self, heap, hist>>
    /\ UNCHANGED <<kwargs, ctor, backend, lookupVars>>

\* one pass of "for info in opt": the iterator advances, the body runs
AdadeltaNext ==
    /\ pc = "adadelta_loop"
    /\ LET a == opt.wrt[1]
           h == [heap EXCEPT ![a] = AdadeltaStep(heap[a])]
           o == [opt EXCEPT !.n_iter = opt.n_iter + 1]
           info == [n_iter |-> o.n_iter]
       IN  /\ opt' = o
           /\ call' = [call EXCEPT !.consumed = call.consumed + 1]
           /\ IF PastCutoff(info, self)
              THEN Returned(AtCutoff(self, o), h)
              ELSE /\ heap' = h
                   /\ UNCHANGED <<self, pc, err, hist>>
    /\ UNCHANGED <<kwargs, ctor, backend, lookupVars>>

(***************************************************************************)
(* Specifications                                                          *)
(***************************************************************************)
InsertionOrder == [i \in 1..Len(optimizers) |-> i]

\* an adapter instance, constructed and then run
Init == InitAdapter(Kinds) /\ InitLookup({InsertionOrder})

Next ==
    \/ RunBase
    \/ OptTnc
    \/ OptLbfgsb
    \/ OptSimplex
    \/ OptScg
    \/ RunAdadelta
    \/ AdadeltaNext

Spec == Init /\ [][Next]_vars

\* the Adadelta adapter alone; the for loop of opt keeps running once entered
InitAdadelta == InitAdapter({"Opt_Adadelta"}) /\ InitLookup({InsertionOrder})

NextAdadelta ==
    \/ RunAdadelta
    \/ AdadeltaNext

SpecAdadelta == InitAdadelta /\ [][NextAdadelta]_vars /\ WF_vars(AdadeltaNext)

\* the registry alone, before any adapter is constructed
InitRegistry ==
    /\ InitLookup(Orders)
    /\ self = [kind |-> "none"]
    /\ heap = <<>>
    /\ kwargs = [f_fp |-> FALSE, f |-> FALSE, fp |-> FALSE]
    /\ backend = [demand |-> 1, code |-> 0]
    /\ pc = "idle"
    /\ err = ""
    /\ call = NoCall
    /\ opt = NoIterator
    /\ hist = [runs |-> 0, first |-> None]
    /\ ctor = [kind |-> "none"]

\* get_optimizer keeps no state between calls: one call per behaviour
NextRegistry ==
    /\ found = "none"
    /\ \E q \in Queries : GetOptimizer(q)

SpecRegistry == InitRegistry /\ [][NextRegistry]_vars

(***************************************************************************)
(* Properties                                                              *)
(***************************************************************************)
\* a run() call has been made and has ended
RunEnded == pc \in {"returned", "raised"}

\* the callback a gradient-requiring variant needs is not among the kwargs
RequiredCallbackMissing ==
    \/ self.kind \in {"opt_tnc", "opt_lbfgsb"} /\ ~kwargs.f_fp
    \/ self.kind = "opt_SCG" /\ (~kwargs.f \/ ~kwargs.fp)
    \/ self.kind = "Opt_Adadelta" /\ ~kwargs.fp

\* C1: a gradient-requiring adapter (TNC, L-BFGS-B, SCG, Adadelta) run
\* without the callback it requires ends with the assertion error, and the
\* external backend is not invoked in that run.
C1_MissingCallbackFailsFast ==
    (pc # "idle" /\ RequiredCallbackMissing)
        => (pc = "raised" /\ err = "AssertionError" /\ call.backend_calls = 0)

C1_Witness ==
    /\ self.kind = "opt_SCG"
    /\ kwargs.f /\ ~kwargs.fp
    /\ pc = "raised"
    /\ err = "AssertionError"

\* the status table of a table-driven adapter
TableOf(kind) ==
    CASE kind = "opt_tnc" -> tnc_rcstrings
      [] kind = "opt_lbfgsb" -> rcstrings
      [] kind = "opt_simplex" -> statuses

TableKinds == {"opt_tnc", "opt_lbfgsb", "opt_simplex"}

\* C2: when the backend of a table-driven adapter returns a code outside
\* 0..len(table)-1, negative codes included, run() does not return normally.
C2_OutOfRangeCodeIsFatal ==
    ( /\ self.kind \in TableKinds
      /\ RunEnded
      /\ call.code # None
      /\ (call.code[1] < 0 \/ call.code[1] >= Len(TableOf(self.kind))) )
        => pc # "returned"

\* the termination reasons the adapters produce
TerminationReasons ==
    {tnc_rcstrings[i] : i \in 1..Len(tnc_rcstrings)}
        \cup {rcstrings[i] : i \in 1..Len(rcstrings)}
        \cup {statuses[i] : i \in 1..Len(statuses)}
        \cup { "ErrorABNORMAL_TERMINATION_IN_LNSRCH",
               "Converged", "MaxFunctionEvaluationsReached", "MaxIterationsReached",
               "maximum number of function evaluations exceeded " }

\* C3: whenever run() returns normally, status is set (not None) to a
\* termination-reason string.
C3_StatusSetOnReturn ==
    pc = "returned" => (self.status # None /\ self.status[1] \in TerminationReasons)

C3_Witness ==
    /\ self.kind = "Opt_Adadelta"
    /\ pc = "returned"
    /\ self.status = Some("maximum number of function evaluations exceeded ")

\* C4: after a normal return in which the backend stayed within the budget it
\* was handed, funct_eval is at most the max_f_eval the caller configured
\* plus one.
C4_EvalsWithinConfiguredBudget ==
    ( /\ pc = "returned"
      /\ call.evals # None /\ call.maxfun # None
      /\ call.evals[1] <= call.maxfun[1] )
        => (self.funct_eval # None /\ self.funct_eval[1] <= ctor.max_f_eval + 1)

\* C5: after a normal return f_opt is set and equals the caller's objective
\* at the returned x_opt.
C5_FOptIsObjectiveAtXOpt ==
    pc = "returned"
        => /\ self.x_opt # None
           /\ self.f_opt # None
           /\ self.f_opt[1] = f(heap[self.x_opt[1]])

\* sub occurs in s as a contiguous substring
Contains(s, sub) ==
    \E a \in 0..(Len(s) - Len(sub)) : \A k \in 1..Len(sub) : s[a + k] = sub[k]

\* the registry entries whose key contains the lower-cased query
Holders(q) ==
    {i \in 1..Len(optimizers) :
        Contains(optimizers[i].key, [k \in 1..Len(q) |-> LowerChar(q[k])])}

\* C6: get_optimizer returns a variant whose key contains the lower-cased
\* query whenever some key does, and raises KeyError exactly when none does.
C6_LookupIsCaseInsensitiveSubstring ==
    found # "none"
        => LET holders == Holders(f_min)
           IN  /\ (holders # {} => \E i \in holders : found = optimizers[i].cls)
               /\ (found = "KeyError" <=> holders = {})

C6_Witness ==
    /\ f_min = <<"S">>
    /\ Cardinality(Holders(f_min)) > 1
    /\ found = "opt_lbfgsb"

\* C7: for a positive max_iters the Adadelta run terminates; it consumes
\* exactly max_iters backend states, then sets x_opt to the backend's
\* current parameters and steps the backend no further.
C7_AdadeltaStopsAtMaxIters ==
    /\ [](pc = "adadelta_loop" => call.consumed < self.max_iters)
    /\ []((pc = "returned" /\ self.kind = "Opt_Adadelta")
            => /\ call.consumed = self.max_iters
               /\ opt.n_iter = self.max_iters
               /\ self.x_opt = opt.wrt)
    /\ ((pc = "adadelta_loop") ~> (pc = "returned"))

C7_Witness ==
    /\ self.kind = "Opt_Adadelta"
    /\ pc = "returned"
    /\ self.max_iters > 1
    /\ call.consumed = self.max_iters

ToleranceNames == {"xtol", "ftol", "gtol", "pgtol"}

\* the tolerances a backend supports, with the native name of each
Supported(kind) ==
    CASE kind = "opt_tnc" -> {<<"xtol", "xtol">>, <<"ftol", "ftol">>, <<"gtol", "pgtol">>}
      [] kind = "opt_lbfgsb" -> {<<"gtol", "pgtol">>}
      [] kind = "opt_simplex" -> {<<"xtol", "xtol">>, <<"ftol", "ftol">>}

\* the tolerances the instance was configured with
SetTolerances ==
    (IF self.xtol # None THEN {<<"xtol", self.xtol[1]>>} ELSE {})
        \cup (IF self.ftol # None THEN {<<"ftol", self.ftol[1]>>} ELSE {})
        \cup (IF self.gtol # None THEN {<<"gtol", self.gtol[1]>>} ELSE {})

\* C8: for TNC, L-BFGS-B and simplex, the options handed to the backend
\* hold exactly the set tolerances the backend supports, under its native
\* names; a set but unsupported tolerance is warned about and left out; and
\* a run fails only for a missing callback or an unknown backend code.
C8_TolerancesTranslated ==
    (self.kind \in TableKinds /\ RunEnded)
        => /\ call.backend_calls = 1
                => /\ {e \in call.opt_dict : e[1] \in ToleranceNames}
                        = {<<p[1][2], p[2][2]>> :
                                p \in {q \in Supported(self.kind) \X SetTolerances :
                                            q[1][1] = q[2][1]}}
                   /\ call.warnings
                        = {t[1] : t \in {u \in SetTolerances :
                                    \A m \in Supported(self.kind) : m[1] # u[1]}}
           /\ pc = "raised"
                => \/ (self.kind = "opt_simplex" /\ ~kwargs.f)
                   \/ (self.kind # "opt_simplex" /\ ~kwargs.f_fp)
                   \/ (call.code # None /\ ~PyIndexable(TableOf(self.kind), call.code[1]))

C8_Witness ==
    /\ self.kind = "opt_lbfgsb"
    /\ pc = "returned"
    /\ self.xtol # None /\ self.ftol # None /\ self.gtol # None
    /\ call.warnings = {"xtol", "ftol"}
    /\ <<"pgtol", 3>> \in call.opt_dict

\* C9: a second run() with the same configuration and callbacks returns the
\* same x_opt and f_opt as the first, and the starting point x_init still
\* holds the values it was constructed with.
C9_SecondRunRepeatsFirst ==
    (pc = "returned" /\ hist.runs >= 2 /\ hist.first # None)
        => /\ self.x_opt # None
           /\ Some(heap[self.x_opt[1]]) = hist.first[1].x_opt
           /\ self.f_opt = hist.first[1].f_opt
           /\ heap[self.x_init] = ctor.x_init

\* C10: a full registered key, in any letter case, resolves to that key's
\* own variant under every iteration order; no registered key contains
\* another one.
C10_FullKeyResolvesToOwnVariant ==
    /\ \A i, j \in 1..Len(optimizers) :
            i # j => ~Contains(optimizers[i].key, optimizers[j].key)
    /\ \A i \in 1..Len(optimizers) :
            ( /\ found # "none"
              /\ Len(f_min) = Len(optimizers[i].key)
              /\ \A k \in 1..Len(f_min) : LowerChar(f_min[k]) = optimizers[i].key[k] )
                => found = optimizers[i].cls

C10_Witness ==
    /\ f_min = <<"S","c","G">>
    /\ order[1] = 2 /\ order[2] = 3
    /\ found = "opt_SCG"

====
